---------------------------- MODULE Spec2Model ----------------------------
(***************************************************************************)
(* Model of src/start.py: the Excel-backed ledger (class LedgerStorage)   *)
(* and the Telegram handlers that call it.                                 *)
(*                                                                         *)
(* Money is counted in hundredths (cents): Decimal("1.50") is 150.  ROI    *)
(* is counted in hundredths of a percent.  Timestamps are the second      *)
(* counter `clock` (datetime.now() formatted to second precision).  The    *)
(* workbook cells hold float(amount); for the amounts of this model        *)
(* (far below 10^15) Decimal(str(float(d))) = d, so a cell is its cents.   *)
(* parse_amount yields the amount as the decimal digits of its cents, a    *)
(* number of any size; the handlers store it as an integer (IntOf).        *)
(*                                                                         *)
(* Every message handler takes `edited`: the update is an edited message,  *)
(* for which update.message is None and the first use of update.message    *)
(* raises AttributeError.                                                  *)
(***************************************************************************)
EXTENDS Integers, Sequences, FiniteSets, TLC

\* ------------------------------------------------------------------ bounds
MaxTx == 3
MaxTime == 1
MaxLimit == 3

\* user ids (update.effective_user.id / the user_id argument)
Users == {0, 1, 2}

TxTypes == {"deposit", "withdraw"}

\* history()'s default limit
DefaultLimit == 10

VARIABLES
    tx,         \* rows 2.. of sheet "Transactions" in the saved workbook
    summary,    \* rows 2.. of sheet "Summary" in the saved workbook
    fileOK,     \* TRUE while the file at EXCEL_PATH is a readable workbook
    clock,      \* datetime.now(), in seconds
    awaiting,   \* context.user_data["awaiting_amount"] per user ("" = unset)
    reply,      \* the last reply a handler sent (or the exception it raised)
    inflight    \* per task slot, a handler invocation suspended in an await
                \* that has statements after it

vars == <<tx, summary, fileOK, clock, awaiting, reply, inflight>>

\* ------------------------------------------------------------ arithmetic
\* n / d rounded to an integer, ties to even (decimal's ROUND_HALF_EVEN,
\* the default context rounding used by quantize() and round()); d > 0.
RoundHalfEven(n, d) ==
    LET q == n \div d
        r == n - q * d
    IN  IF 2 * r < d THEN q
        ELSE IF 2 * r > d THEN q + 1
        ELSE IF q % 2 = 0 THEN q ELSE q + 1

\* ------------------------------------------------------------ parse_amount
\* A text is a sequence of characters.  An ASCII character is written as
\* itself, a character beyond ASCII by its code point ("U+0661" is ARABIC-
\* INDIC DIGIT ONE, "U+1D7CE" is MATHEMATICAL BOLD DIGIT ZERO).
\*
\* The Unicode decimal digits (category Nd), which the Decimal constructor
\* reads by their digit value: NdDigits[v + 1] holds the characters of
\* value v.
NdDigits == <<
    { "0", "U+0660", "U+06F0", "U+07C0", "U+0966", "U+09E6", "U+0A66",
      "U+0AE6", "U+0B66", "U+0BE6", "U+0C66", "U+0CE6", "U+0D66", "U+0DE6",
      "U+0E50", "U+0ED0", "U+0F20", "U+1040", "U+1090", "U+17E0", "U+1810",
      "U+1946", "U+19D0", "U+1A80", "U+1A90", "U+1B50", "U+1BB0", "U+1C40",
      "U+1C50", "U+A620", "U+A8D0", "U+A900", "U+A9D0", "U+A9F0", "U+AA50",
      "U+ABF0", "U+FF10", "U+104A0", "U+10D30", "U+11066", "U+110F0",
      "U+11136", "U+111D0", "U+112F0", "U+11450", "U+114D0", "U+11650",
      "U+116C0", "U+11730", "U+118E0", "U+11950", "U+11C50", "U+11D50",
      "U+11DA0", "U+16A60", "U+16AC0", "U+16B50", "U+1D7CE", "U+1D7D8",
      "U+1D7E2", "U+1D7EC", "U+1D7F6", "U+1E140", "U+1E2F0", "U+1E950",
      "U+1FBF0" },
    { "1", "U+0661", "U+06F1", "U+07C1", "U+0967", "U+09E7", "U+0A67",
      "U+0AE7", "U+0B67", "U+0BE7", "U+0C67", "U+0CE7", "U+0D67", "U+0DE7",
      "U+0E51", "U+0ED1", "U+0F21", "U+1041", "U+1091", "U+17E1", "U+1811",
      "U+1947", "U+19D1", "U+1A81", "U+1A91", "U+1B51", "U+1BB1", "U+1C41",
      "U+1C51", "U+A621", "U+A8D1", "U+A901", "U+A9D1", "U+A9F1", "U+AA51",
      "U+ABF1", "U+FF11", "U+104A1", "U+10D31", "U+11067", "U+110F1",
      "U+11137", "U+111D1", "U+112F1", "U+11451", "U+114D1", "U+11651",
      "U+116C1", "U+11731", "U+118E1", "U+11951", "U+11C51", "U+11D51",
      "U+11DA1", "U+16A61", "U+16AC1", "U+16B51", "U+1D7CF", "U+1D7D9",
      "U+1D7E3", "U+1D7ED", "U+1D7F7", "U+1E141", "U+1E2F1", "U+1E951",
      "U+1FBF1" },
    { "2", "U+0662", "U+06F2", "U+07C2", "U+0968", "U+09E8", "U+0A68",
      "U+0AE8", "U+0B68", "U+0BE8", "U+0C68", "U+0CE8", "U+0D68", "U+0DE8",
      "U+0E52", "U+0ED2", "U+0F22", "U+1042", "U+1092", "U+17E2", "U+1812",
      "U+1948", "U+19D2", "U+1A82", "U+1A92", "U+1B52", "U+1BB2", "U+1C42",
      "U+1C52", "U+A622", "U+A8D2", "U+A902", "U+A9D2", "U+A9F2", "U+AA52",
      "U+ABF2", "U+FF12", "U+104A2", "U+10D32", "U+11068", "U+110F2",
      "U+11138", "U+111D2", "U+112F2", "U+11452", "U+114D2", "U+11652",
      "U+116C2", "U+11732", "U+118E2", "U+11952", "U+11C52", "U+11D52",
      "U+11DA2", "U+16A62", "U+16AC2", "U+16B52", "U+1D7D0", "U+1D7DA",
      "U+1D7E4", "U+1D7EE", "U+1D7F8", "U+1E142", "U+1E2F2", "U+1E952",
      "U+1FBF2" },
    { "3", "U+0663", "U+06F3", "U+07C3", "U+0969", "U+09E9", "U+0A69",
      "U+0AE9", "U+0B69", "U+0BE9", "U+0C69", "U+0CE9", "U+0D69", "U+0DE9",
      "U+0E53", "U+0ED3", "U+0F23", "U+1043", "U+1093", "U+17E3", "U+1813",
      "U+1949", "U+19D3", "U+1A83", "U+1A93", "U+1B53", "U+1BB3", "U+1C43",
      "U+1C53", "U+A623", "U+A8D3", "U+A903", "U+A9D3", "U+A9F3", "U+AA53",
      "U+ABF3", "U+FF13", "U+104A3", "U+10D33", "U+11069", "U+110F3",
      "U+11139", "U+111D3", "U+112F3", "U+11453", "U+114D3", "U+11653",
      "U+116C3", "U+11733", "U+118E3", "U+11953", "U+11C53", "U+11D53",
      "U+11DA3", "U+16A63", "U+16AC3", "U+16B53", "U+1D7D1", "U+1D7DB",
      "U+1D7E5", "U+1D7EF", "U+1D7F9", "U+1E143", "U+1E2F3", "U+1E953",
      "U+1FBF3" },
    { "4", "U+0664", "U+06F4", "U+07C4", "U+096A", "U+09EA", "U+0A6A",
      "U+0AEA", "U+0B6A", "U+0BEA", "U+0C6A", "U+0CEA", "U+0D6A", "U+0DEA",
      "U+0E54", "U+0ED4", "U+0F24", "U+1044", "U+1094", "U+17E4", "U+1814",
      "U+194A", "U+19D4", "U+1A84", "U+1A94", "U+1B54", "U+1BB4", "U+1C44",
      "U+1C54", "U+A624", "U+A8D4", "U+A904", "U+A9D4", "U+A9F4", "U+AA54",
      "U+ABF4", "U+FF14", "U+104A4", "U+10D34", "U+1106A", "U+110F4",
      "U+1113A", "U+111D4", "U+112F4", "U+11454", "U+114D4", "U+11654",
      "U+116C4", "U+11734", "U+118E4", "U+11954", "U+11C54", "U+11D54",
      "U+11DA4", "U+16A64", "U+16AC4", "U+16B54", "U+1D7D2", "U+1D7DC",
      "U+1D7E6", "U+1D7F0", "U+1D7FA", "U+1E144", "U+1E2F4", "U+1E954",
      "U+1FBF4" },
    { "5", "U+0665", "U+06F5", "U+07C5", "U+096B", "U+09EB", "U+0A6B",
      "U+0AEB", "U+0B6B", "U+0BEB", "U+0C6B", "U+0CEB", "U+0D6B", "U+0DEB",
      "U+0E55", "U+0ED5", "U+0F25", "U+1045", "U+1095", "U+17E5", "U+1815",
      "U+194B", "U+19D5", "U+1A85", "U+1A95", "U+1B55", "U+1BB5", "U+1C45",
      "U+1C55", "U+A625", "U+A8D5", "U+A905", "U+A9D5", "U+A9F5", "U+AA55",
      "U+ABF5", "U+FF15", "U+104A5", "U+10D35", "U+1106B", "U+110F5",
      "U+1113B", "U+111D5", "U+112F5", "U+11455", "U+114D5", "U+11655",
      "U+116C5", "U+11735", "U+118E5", "U+11955", "U+11C55", "U+11D55",
      "U+11DA5", "U+16A65", "U+16AC5", "U+16B55", "U+1D7D3", "U+1D7DD",
      "U+1D7E7", "U+1D7F1", "U+1D7FB", "U+1E145", "U+1E2F5", "U+1E955",
      "U+1FBF5" },
    { "6", "U+0666", "U+06F6", "U+07C6", "U+096C", "U+09EC", "U+0A6C",
      "U+0AEC", "U+0B6C", "U+0BEC", "U+0C6C", "U+0CEC", "U+0D6C", "U+0DEC",
      "U+0E56", "U+0ED6", "U+0F26", "U+1046", "U+1096", "U+17E6", "U+1816",
      "U+194C", "U+19D6", "U+1A86", "U+1A96", "U+1B56", "U+1BB6", "U+1C46",
      "U+1C56", "U+A626", "U+A8D6", "U+A906", "U+A9D6", "U+A9F6", "U+AA56",
      "U+ABF6", "U+FF16", "U+104A6", "U+10D36", "U+1106C", "U+110F6",
      "U+1113C", "U+111D6", "U+112F6", "U+11456", "U+114D6", "U+11656",
      "U+116C6", "U+11736", "U+118E6", "U+11956", "U+11C56", "U+11D56",
      "U+11DA6", "U+16A66", "U+16AC6", "U+16B56", "U+1D7D4", "U+1D7DE",
      "U+1D7E8", "U+1D7F2", "U+1D7FC", "U+1E146", "U+1E2F6", "U+1E956",
      "U+1FBF6" },
    { "7", "U+0667", "U+06F7", "U+07C7", "U+096D", "U+09ED", "U+0A6D",
      "U+0AED", "U+0B6D", "U+0BED", "U+0C6D", "U+0CED", "U+0D6D", "U+0DED",
      "U+0E57", "U+0ED7", "U+0F27", "U+1047", "U+1097", "U+17E7", "U+1817",
      "U+194D", "U+19D7", "U+1A87", "U+1A97", "U+1B57", "U+1BB7", "U+1C47",
      "U+1C57", "U+A627", "U+A8D7", "U+A907", "U+A9D7", "U+A9F7", "U+AA57",
      "U+ABF7", "U+FF17", "U+104A7", "U+10D37", "U+1106D", "U+110F7",
      "U+1113D", "U+111D7", "U+112F7", "U+11457", "U+114D7", "U+11657",
      "U+116C7", "U+11737", "U+118E7", "U+11957", "U+11C57", "U+11D57",
      "U+11DA7", "U+16A67", "U+16AC7", "U+16B57", "U+1D7D5", "U+1D7DF",
      "U+1D7E9", "U+1D7F3", "U+1D7FD", "U+1E147", "U+1E2F7", "U+1E957",
      "U+1FBF7" },
    { "8", "U+0668", "U+06F8", "U+07C8", "U+096E", "U+09EE", "U+0A6E",
      "U+0AEE", "U+0B6E", "U+0BEE", "U+0C6E", "U+0CEE", "U+0D6E", "U+0DEE",
      "U+0E58", "U+0ED8", "U+0F28", "U+1048", "U+1098", "U+17E8", "U+1818",
      "U+194E", "U+19D8", "U+1A88", "U+1A98", "U+1B58", "U+1BB8", "U+1C48",
      "U+1C58", "U+A628", "U+A8D8", "U+A908", "U+A9D8", "U+A9F8", "U+AA58",
      "U+ABF8", "U+FF18", "U+104A8", "U+10D38", "U+1106E", "U+110F8",
      "U+1113E", "U+111D8", "U+112F8", "U+11458", "U+114D8", "U+11658",
      "U+116C8", "U+11738", "U+118E8", "U+11958", "U+11C58", "U+11D58",
      "U+11DA8", "U+16A68", "U+16AC8", "U+16B58", "U+1D7D6", "U+1D7E0",
      "U+1D7EA", "U+1D7F4", "U+1D7FE", "U+1E148", "U+1E2F8", "U+1E958",
      "U+1FBF8" },
    { "9", "U+0669", "U+06F9", "U+07C9", "U+096F", "U+09EF", "U+0A6F",
      "U+0AEF", "U+0B6F", "U+0BEF", "U+0C6F", "U+0CEF", "U+0D6F", "U+0DEF",
      "U+0E59", "U+0ED9", "U+0F29", "U+1049", "U+1099", "U+17E9", "U+1819",
      "U+194F", "U+19D9", "U+1A89", "U+1A99", "U+1B59", "U+1BB9", "U+1C49",
      "U+1C59", "U+A629", "U+A8D9", "U+A909", "U+A9D9", "U+A9F9", "U+AA59",
      "U+ABF9", "U+FF19", "U+104A9", "U+10D39", "U+1106F", "U+110F9",
      "U+1113F", "U+111D9", "U+112F9", "U+11459", "U+114D9", "U+11659",
      "U+116C9", "U+11739", "U+118E9", "U+11959", "U+11C59", "U+11D59",
      "U+11DA9", "U+16A69", "U+16AC9", "U+16B59", "U+1D7D7", "U+1D7E1",
      "U+1D7EB", "U+1D7F5", "U+1D7FF", "U+1E149", "U+1E2F9", "U+1E959",
      "U+1FBF9" } >>

Digits == UNION {NdDigits[i] : i \in 1..10}

DigitVal(c) == (CHOOSE i \in 1..10 : c \in NdDigits[i]) - 1

\* raw.replace(",", ".")
replace_comma(raw) == [i \in DOMAIN raw |-> IF raw[i] = "," THEN "." ELSE raw[i]]

\* The characters for which str.isspace() holds: str.strip() with no
\* argument drops them, and so does the Decimal constructor.
Whitespace ==
    { "\t", "\n", "", "\f", "\r", "", "", "", "", " ", "U+0085",
      "U+00A0", "U+1680", "U+2000", "U+2001", "U+2002", "U+2003", "U+2004",
      "U+2005", "U+2006", "U+2007", "U+2008", "U+2009", "U+200A", "U+2028",
      "U+2029", "U+202F", "U+205F", "U+3000" }

\* str.strip(): drop leading and trailing whitespace
RECURSIVE lstrip(_)
lstrip(s) == IF s # <<>> /\ Head(s) \in Whitespace THEN lstrip(Tail(s)) ELSE s

RECURSIVE rstrip(_)
rstrip(s) ==
    IF s # <<>> /\ s[Len(s)] \in Whitespace
    THEN rstrip(SubSeq(s, 1, Len(s) - 1)) ELSE s

strip(s) == rstrip(lstrip(s))

AllDigits(s) == \A i \in DOMAIN s : s[i] \in Digits

\* ---- integers of any size ------------------------------------------------
\* Python's integers and the coefficient and exponent of a Decimal have no
\* upper limit.  A natural number is held as the sequence of its decimal
\* digits (values 0..9, most significant first, no leading zero; zero is
\* <<0>>), a signed one as [neg, mag].
RECURSIVE strip_zeros(_)
strip_zeros(ds) ==
    IF Len(ds) > 1 /\ Head(ds) = 0 THEN strip_zeros(Tail(ds)) ELSE ds

\* the number written by the digit values ds (<<>> writes zero)
Num(ds) == IF ds = <<>> THEN <<0>> ELSE strip_zeros(ds)

\* the number written by a string of digits
DigitsVal(s) == Num([i \in DOMAIN s |-> DigitVal(s[i])])

\* the digits of an integer n >= 0
RECURSIVE NumOfInt(_)
NumOfInt(n) ==
    IF n < 10 THEN <<n>> ELSE Append(NumOfInt(n \div 10), n % 10)

\* the integer of a number of at most nine digits
RECURSIVE IntOf(_)
IntOf(ds) ==
    IF ds = <<>> THEN 0
    ELSE 10 * IntOf(SubSeq(ds, 1, Len(ds) - 1)) + ds[Len(ds)]

\* a <= b
LeqNum(a, b) ==
    \/ Len(a) < Len(b)
    \/ /\ Len(a) = Len(b)
       /\ \/ a = b
          \/ \E k \in DOMAIN a :
                a[k] < b[k] /\ \A j \in 1..(k - 1) : a[j] = b[j]

\* a + n for an integer n >= 0, digit by digit with the carry
RECURSIVE add_digits(_, _)
add_digits(a, n) ==
    IF n = 0 THEN a
    ELSE IF a = <<>> THEN NumOfInt(n)
    ELSE Append(add_digits(SubSeq(a, 1, Len(a) - 1), (a[Len(a)] + n) \div 10),
                (a[Len(a)] + n) % 10)

AddNum(a, n) == Num(add_digits(a, n))

\* a - n for an integer 0 <= n <= a, digit by digit with the borrow
RECURSIVE sub_digits(_, _)
sub_digits(a, n) ==
    IF n = 0 THEN a
    ELSE IF a[Len(a)] >= (n % 10)
    THEN Append(sub_digits(SubSeq(a, 1, Len(a) - 1), n \div 10),
                a[Len(a)] - (n % 10))
    ELSE Append(sub_digits(SubSeq(a, 1, Len(a) - 1), (n \div 10) + 1),
                a[Len(a)] + 10 - (n % 10))

SubNum(a, n) == Num(sub_digits(a, n))

Signed(neg, mag) == [neg |-> neg /\ mag # <<0>>, mag |-> mag]

\* x - n for a signed x and an integer n >= 0
Minus(x, n) ==
    IF x.neg THEN Signed(TRUE, AddNum(x.mag, n))
    ELSE IF LeqNum(NumOfInt(n), x.mag) THEN Signed(FALSE, SubNum(x.mag, n))
    ELSE Signed(TRUE, NumOfInt(n - IntOf(x.mag)))

\* ---- the Decimal constructor ---------------------------------------------
\* The Decimal constructor reads letters without regard to case.
lower(c) ==
    CASE c = "E" -> "e" [] c = "I" -> "i" [] c = "N" -> "n" [] c = "F" -> "f"
      [] c = "A" -> "a" [] c = "T" -> "t" [] c = "Y" -> "y" [] c = "S" -> "s"
      [] OTHER -> c

casefold(s) == [i \in DOMAIN s |-> lower(s[i])]

\* The Decimal constructor drops every underscore of the stripped text.
remove_underscores(s) ==
    LET kept(c) == c # "_"
    IN  SelectSeq(s, kept)

\* A Decimal: sign, coefficient and exponent; a finite value is
\* sign * coef * 10^exp.
NoDecimal ==
    [ok |-> FALSE, kind |-> "none", neg |-> FALSE, coef |-> <<0>>,
     exp |-> Signed(FALSE, <<0>>)]

Special(kind, neg) ==
    [ok |-> TRUE, kind |-> kind, neg |-> neg, coef |-> <<0>>,
     exp |-> Signed(FALSE, <<0>>)]

\* the exponent part after the "e", [sign] digits: its value, or no Decimal
exponent_of(ex) ==
    IF ex # <<>> /\ Head(ex) \in {"-", "+"}
    THEN IF Tail(ex) # <<>> /\ AllDigits(Tail(ex))
         THEN [ok |-> TRUE, val |-> Signed(Head(ex) = "-", DigitsVal(Tail(ex)))]
         ELSE [ok |-> FALSE, val |-> Signed(FALSE, <<0>>)]
    ELSE IF ex # <<>> /\ AllDigits(ex)
         THEN [ok |-> TRUE, val |-> Signed(FALSE, DigitsVal(ex))]
         ELSE [ok |-> FALSE, val |-> Signed(FALSE, <<0>>)]

\* The constructor works in the widest context of the decimal module, Emax =
\* 999999999999999999 and Etiny = -1999999999999999997, and raises
\* InvalidOperation for a value it cannot hold there exactly.
Emax == [i \in 1..18 |-> 9]

Etiny == Signed(TRUE, <<1>> \o [i \in 1..17 |-> 9] \o <<7>>)

\* coef * 10^exp can be held: its exponent is not below Etiny and its
\* adjusted exponent (exp + number of digits of coef - 1) is not above Emax
in_range(coef, exp) ==
    IF exp.neg THEN LeqNum(exp.mag, Etiny.mag)
    ELSE LeqNum(AddNum(exp.mag, Len(coef) - 1), Emax)

\* the finite value of coefficient coef and exponent exp, if it can be held
ranged(neg, coef, exp) ==
    IF in_range(coef, exp)
    THEN [ok |-> TRUE, kind |-> "finite", neg |-> neg, coef |-> coef, exp |-> exp]
    ELSE NoDecimal

\* integer part ip, fraction part fp, exponent: sign * ip.fp * 10^exponent
finite_of(neg, ip, fp, exponent) ==
    IF AllDigits(ip) /\ AllDigits(fp) /\ Len(ip) + Len(fp) > 0 /\ exponent.ok
    THEN ranged(neg, DigitsVal(ip \o fp), Minus(exponent.val, Len(fp)))
    ELSE NoDecimal

\* the mantissa digits [. [digits]] | . digits, split at its first point (a
\* second point is no digit)
mantissa_of(neg, mant, exponent) ==
    IF \E i \in DOMAIN mant : mant[i] = "."
    THEN LET p == CHOOSE i \in DOMAIN mant :
                      mant[i] = "." /\ \A j \in 1..(i - 1) : mant[j] # "."
         IN  finite_of(neg, SubSeq(mant, 1, p - 1),
                       SubSeq(mant, p + 1, Len(mant)), exponent)
    ELSE finite_of(neg, mant, <<>>, exponent)

\* a numeral, split at its first "e" (a second "e" is no digit)
numeral_of(neg, body) ==
    IF \E i \in DOMAIN body : body[i] = "e"
    THEN LET q == CHOOSE i \in DOMAIN body :
                      body[i] = "e" /\ \A j \in 1..(i - 1) : body[j] # "e"
         IN  mantissa_of(neg, SubSeq(body, 1, q - 1),
                         exponent_of(SubSeq(body, q + 1, Len(body))))
    ELSE mantissa_of(neg, body, [ok |-> TRUE, val |-> Signed(FALSE, <<0>>)])

\* nan [digits]
is_nan(body) ==
    /\ Len(body) >= 3
    /\ SubSeq(body, 1, 3) = <<"n", "a", "n">>
    /\ AllDigits(SubSeq(body, 4, Len(body)))

\* the text after the sign
unsigned_of(neg, body) ==
    IF body \in {<<"i", "n", "f">>, <<"i", "n", "f", "i", "n", "i", "t", "y">>}
    THEN Special("inf", neg)
    ELSE IF is_nan(body) \/ (body # <<>> /\ Head(body) = "s" /\ is_nan(Tail(body)))
    THEN Special("nan", neg)
    ELSE numeral_of(neg, body)

signed_of(t) ==
    IF t # <<>> /\ Head(t) \in {"-", "+"}
    THEN unsigned_of(Head(t) = "-", Tail(t))
    ELSE unsigned_of(FALSE, t)

\* Decimal(text): the constructor strips whitespace, drops underscores and
\* reads, without regard to case and with any decimal digits,
\*   [sign] (digits [. [digits]] | . digits) [e [sign] digits]
\*   [sign] inf | [sign] infinity | [sign] [s]nan [digits]
\* anything else is InvalidOperation (ok = FALSE), and so is a numeral out
\* of the range of the module.
Decimal(text) == signed_of(casefold(remove_underscores(strip(text))))

\* ---- quantize ------------------------------------------------------------
\* the precision of the default decimal context
Prec == 28

Zeros(k) == [i \in 1..k |-> 0]

\* q, or q + 1 when the dropped digits r (at least one) round it up: more
\* than half, or exactly half with q odd (ROUND_HALF_EVEN, the rounding of
\* the default context)
round_half_even(q, r) ==
    IF \/ r[1] > 5
       \/ r[1] = 5 /\ \E i \in 2..Len(r) : r[i] # 0
       \/ r[1] = 5 /\ (q[Len(q)] % 2) = 1
    THEN AddNum(q, 1) ELSE q

\* coef without its last k digits, rounded; 1 <= k <= Len(coef)
drop_digits(coef, k) ==
    round_half_even(Num(SubSeq(coef, 1, Len(coef) - k)),
                    SubSeq(coef, Len(coef) - k + 1, Len(coef)))

\* value.quantize(Decimal("0.01")) of the finite value coef * 10^exp, in
\* cents; when exp is not negative it has at most two digits.  A value
\* below 0.001 rounds to zero.
quantize(coef, exp) ==
    IF coef = <<0>> THEN <<0>>
    ELSE IF ~exp.neg THEN coef \o Zeros(IntOf(exp.mag) + 2)
    ELSE IF LeqNum(exp.mag, <<2>>) THEN coef \o Zeros(2 - IntOf(exp.mag))
    ELSE IF ~LeqNum(exp.mag, NumOfInt(Len(coef) + 2)) THEN <<0>>
    ELSE drop_digits(coef, IntOf(exp.mag) - 2)

\* quantize raises InvalidOperation when the result would have more than
\* Prec digits.
quantize_fits(coef, exp) ==
    IF coef = <<0>> THEN TRUE
    ELSE IF ~exp.neg
    THEN Len(exp.mag) <= 2 /\ Len(coef) + IntOf(exp.mag) + 2 <= Prec
    ELSE Len(quantize(coef, exp)) <= Prec

\* lines 180-183 of parse_amount on the outcome of Decimal(normalized):
\*   Decimal(normalized) raises InvalidOperation on a text that is no numeral;
\*   `value <= 0` raises InvalidOperation on a NaN, and is true (ValueError)
\*   of -Infinity, of a negative value and of zero;
\*   quantize raises InvalidOperation on Infinity and on a result of more
\*   than Prec digits.
\* The amount is the quantized value in cents, a number of any size.
checked_amount(value) ==
    IF ~value.ok THEN [ok |-> FALSE, amount |-> <<0>>]
    ELSE IF value.kind = "nan" THEN [ok |-> FALSE, amount |-> <<0>>]
    ELSE IF value.kind = "inf" THEN [ok |-> FALSE, amount |-> <<0>>]
    ELSE IF value.neg \/ value.coef = <<0>> THEN [ok |-> FALSE, amount |-> <<0>>]
    ELSE IF ~quantize_fits(value.coef, value.exp)
    THEN [ok |-> FALSE, amount |-> <<0>>]
    ELSE [ok |-> TRUE, amount |-> quantize(value.coef, value.exp)]

\* the message texts the handlers are run on, as strings of characters
RawTexts ==
    { <<"1", ",", "0">>, <<"\t", "U+0661", "e", "0", "U+00A0">>,
      <<".", "0", "0", "1">>, <<"-", "5">>, <<"0">>, <<"a", "b", "c">> }

\* parse_amount of each of these texts
parsed_texts ==
    [raw \in RawTexts |-> checked_amount(Decimal(strip(replace_comma(raw))))]

\* parse_amount(raw): [ok |-> TRUE, amount |-> cents], or ok = FALSE when it
\* raises InvalidOperation or ValueError (the two exceptions its callers
\* catch)
parse_amount(raw) ==
    IF raw \in RawTexts THEN parsed_texts[raw]
    ELSE checked_amount(Decimal(strip(replace_comma(raw))))


\* ---------------------------------------------------------- LedgerStorage
\* one data row of sheet "Transactions": [user_id, tx_type, float(amount), timestamp]
TxRow(user_id, tx_type, amount, timestamp) ==
    [user_id |-> user_id, type |-> tx_type, amount |-> amount, timestamp |-> timestamp]

\* one data row of sheet "Summary"
SummaryRow(uid, deposits, withdrawals, bal, roi, now) ==
    [user_id |-> uid, deposits |-> deposits, withdrawals |-> withdrawals,
     balance |-> bal, roi_percent |-> roi, updated_at |-> now]

\* the loop of _rebuild_summary over the Transactions rows: user_stats maps
\* each uid met so far to its two running sums; a row whose user_id cell is
\* falsy (`if not row[0]: continue`) is skipped.
RECURSIVE accumulate(_, _, _)
accumulate(txs, i, user_stats) ==
    IF i > Len(txs) THEN user_stats
    ELSE LET row == txs[i]
             uid == row.user_id
             known == IF uid \in DOMAIN user_stats THEN user_stats
                      ELSE user_stats @@ (uid :> [deposit |-> 0, withdraw |-> 0])
         IN  IF uid = 0 THEN accumulate(txs, i + 1, user_stats)
             ELSE accumulate(txs, i + 1,
                             [known EXCEPT ![uid][row.type] = @ + row.amount])

\* sorted(user_stats.items()): the keys in ascending order
RECURSIVE sorted(_)
sorted(S) ==
    IF S = {} THEN <<>>
    ELSE LET m == CHOOSE x \in S : \A y \in S : x <= y
         IN  <<m>> \o sorted(S \ {m})

\* faulty variant of roi_of: with no deposits the withdrawals are the base
roi_of_withdrawal_base(deposits, withdrawals) ==
    IF deposits > 0
    THEN RoundHalfEven((withdrawals - deposits) * 10000, deposits)
    ELSE IF withdrawals > 0
    THEN RoundHalfEven((withdrawals - deposits) * 10000, withdrawals)
    ELSE 0

\* roi of one user: (withdrawals - deposits) / deposits * 100 rounded to two
\* places if deposits > 0, else 0; in hundredths of a percent.
roi_of(deposits, withdrawals) ==
    IF deposits > 0
    THEN RoundHalfEven((withdrawals - deposits) * 10000, deposits)
    ELSE 0

\* faulty variant of _rebuild_summary: the old Summary rows are not deleted
rebuild_summary_keep_old(txs, now) ==
    LET user_stats == accumulate(txs, 1, <<>>)
        uids == sorted(DOMAIN user_stats)
    IN  summary \o
        [k \in DOMAIN uids |->
            LET st == user_stats[uids[k]]
            IN  SummaryRow(uids[k], st.deposit, st.withdraw,
                           st.deposit - st.withdraw,
                           roi_of(st.deposit, st.withdraw), now)]

\* faulty variant of _rebuild_summary: a user whose two sums are what the old
\* row holds keeps the old row, stamp included
rebuild_summary_keep_stamp(txs, now) ==
    LET user_stats == accumulate(txs, 1, <<>>)
        uids == sorted(DOMAIN user_stats)
    IN  [k \in DOMAIN uids |->
            LET st == user_stats[uids[k]]
                row == SummaryRow(uids[k], st.deposit, st.withdraw,
                                  st.deposit - st.withdraw,
                                  roi_of(st.deposit, st.withdraw), now)
                old == {j \in DOMAIN summary :
                           [summary[j] EXCEPT !.updated_at = now] = row}
            IN  IF old = {} THEN row ELSE summary[CHOOSE j \in old : TRUE]]

\* _rebuild_summary(wb): the Summary rows written for the Transactions rows
\* txs at time now (the old rows are all deleted first).
rebuild_summary(txs, now) ==
    LET user_stats == accumulate(txs, 1, <<>>)
        uids == sorted(DOMAIN user_stats)
    IN  [k \in DOMAIN uids |->
            LET st == user_stats[uids[k]]
            IN  SummaryRow(uids[k], st.deposit, st.withdraw,
                           st.deposit - st.withdraw,
                           roi_of(st.deposit, st.withdraw), now)]

\* a workbook: the data rows of its two sheets
Workbook(txs, sm) == [tx |-> txs, summary |-> sm]

\* faulty variant of add_transaction: the new row is written above the old ones
add_transaction_on_top(txs, user_id, tx_type, amount, timestamp, now) ==
    LET rows == <<TxRow(user_id, tx_type, amount, timestamp)>> \o txs
    IN  [tx |-> rows, summary |-> rebuild_summary(rows, now)]

\* add_transaction(user_id, tx_type, amount) on the loaded rows txs:
\* tx.append([...]), then _rebuild_summary(wb); the workbook it saves.  The
\* clock is read twice: `timestamp` is the datetime.now() of the appended row
\* (line 104), `now` the datetime.now() of _rebuild_summary (line 143), which
\* is the same second or a later one.
add_transaction(txs, user_id, tx_type, amount, timestamp, now) ==
    LET rows == Append(txs, TxRow(user_id, tx_type, amount, timestamp))
    IN  Workbook(rows, rebuild_summary(rows, now))

\* faulty variant of the loop of reset_user: only the first row of the user
\* is dropped
kept_rows_first_only(txs, user_id) ==
    LET hits == {i \in DOMAIN txs : txs[i].user_id = user_id}
        first == CHOOSE i \in hits : \A j \in hits : i <= j
    IN  IF hits = {} THEN txs
        ELSE SubSeq(txs, 1, first - 1) \o SubSeq(txs, first + 1, Len(txs))

\* faulty variant of the loop of reset_user: rows with a falsy user_id cell
\* are dropped as well
kept_rows_truthy(txs, user_id) ==
    LET keep(row) == row.user_id # 0 /\ row.user_id # user_id
    IN  SelectSeq(txs, keep)

\* the loop of reset_user: the rows kept (int(row[0]) != user_id), in order
kept_rows(txs, user_id) ==
    LET keep(row) == row.user_id # user_id
    IN  SelectSeq(txs, keep)

\* reset_user(user_id) at time now on the loaded rows txs: all rows deleted,
\* the kept rows appended again, then _rebuild_summary(wb); the workbook it
\* saves
reset_user(txs, user_id, now) ==
    LET rows == kept_rows(txs, user_id)
    IN  Workbook(rows, rebuild_summary(rows, now))

\* get_user_stats(user_id): the first Summary row with a truthy user_id cell
\* equal to user_id, else four zeros
get_user_stats(sm, user_id) ==
    LET hits == {k \in DOMAIN sm : sm[k].user_id # 0 /\ sm[k].user_id = user_id}
    IN  IF hits = {} THEN <<0, 0, 0, 0>>
        ELSE LET k == CHOOSE x \in hits : \A y \in hits : x <= y
             IN  <<sm[k].deposits, sm[k].withdrawals, sm[k].balance, sm[k].roi_percent>>

\* reversed(s)
reversed(s) == [i \in DOMAIN s |-> s[Len(s) + 1 - i]]

\* rows[-limit:] with Python's slice rules: a positive limit keeps the last
\* `limit` rows, -0 is 0 and keeps all rows from index 0, a negative limit
\* drops the first -limit rows.
last_rows(rows, limit) ==
    LET n == Len(rows)
        start == IF limit > 0 THEN (IF n > limit THEN n - limit ELSE 0)
                 ELSE (IF -limit < n THEN -limit ELSE n)
    IN  SubSeq(rows, start + 1, n)

\* get_user_history(user_id, limit)
get_user_history(txs, user_id, limit) ==
    LET mine(row) == row.user_id # 0 /\ row.user_id = user_id
        own == SelectSeq(txs, mine)
        rows == [i \in DOMAIN own |-> <<own[i].type, own[i].amount, own[i].timestamp>>]
    IN  reversed(last_rows(rows, limit))


\* ------------------------------------------------------------- the inputs
\* context.args of a command: the whitespace-separated words after it
CmdArgs ==
    {<<>>} \cup {<<raw>> : raw \in {r \in RawTexts : \A i \in DOMAIN r : r[i] \notin Whitespace}}

\* callback_data of the two inline buttons of reset()
CallbackData == {"reset_confirm", "reset_cancel"}

\* the texts the menu_router filter matches (the seven keyboard buttons)
MenuButtons == {"deposit", "withdraw", "balance", "stats", "history", "export", "reset"}

Reply(kind, body) == [kind |-> kind, body |-> body]

NoReply == Reply("none", <<>>)

\* The CommandHandlers and MessageHandlers of main() are registered without
\* an update-type filter, so they are also run on the update of an EDITED
\* message.  Such an update carries the message in update.edited_message
\* and update.message is None: `update.message.reply_text` and
\* `update.message.text` raise AttributeError, which leaves the handler.
AttributeError == Reply("attribute_error", <<>>)

\* await update.message.reply_text(...) (reply_document for the export)
\* with the answer r; `edited` tells that the update is of an edited message
reply_text(edited, r) == reply' = IF edited THEN AttributeError ELSE r

\* ----------------------------------------------------------------- state
\* the invocations the event loop can hold suspended at once while another
\* one runs
MaxInflight == 1

Slots == 1..MaxInflight

\* a task slot with no handler invocation in it; a slot in use holds the
\* await the invocation is suspended in, its user and (button_callback) the
\* callback data
Idle == [pc |-> "idle", u |-> 0, data |-> ""]

Suspended(pc, u, data) == [pc |-> pc, u |-> u, data |-> data]

\* _init_workbook() on a path where no file exists: a new workbook whose two
\* sheets hold their header rows only
new_workbook == Workbook(<<>>, <<>>)

\* module load with no file at EXCEL_PATH: ledger = LedgerStorage(EXCEL_PATH)
\* saves the new workbook; no update has been dispatched yet
Init ==
    /\ tx = new_workbook.tx
    /\ summary = new_workbook.summary
    /\ fileOK = TRUE
    /\ clock = 0
    /\ awaiting = [u \in Users |-> ""]
    /\ reply = NoReply
    /\ inflight = [s \in Slots |-> Idle]

\* datetime.now() moves on between handler calls
Tick ==
    /\ clock < MaxTime
    /\ clock' = clock + 1
    /\ UNCHANGED <<tx, summary, fileOK, awaiting, reply>>

\* _save_wb(wb): wb.save(file_path) writes both sheets of wb to the file
save_wb(wb) ==
    /\ tx' = wb.tx
    /\ summary' = wb.summary
    /\ fileOK' = TRUE

\* faulty variant of record_amount: the balance is read before the record is
\* added
record_amount_stale_balance(u, tx_type, amount, edited) ==
    /\ fileOK
    /\ Len(tx) < MaxTx
    /\ \E now \in clock..MaxTime :
          /\ save_wb(add_transaction(tx, u, tx_type, amount, clock, now))
          /\ clock' = now
    /\ reply_text(edited,
                  Reply("added", <<tx_type, amount, get_user_stats(summary, u)[3]>>))

\* the body shared by add_deposit, withdraw and amount_from_menu once the
\* amount is parsed: add_transaction, get_user_stats, reply with the balance.
\* The clock stands at the row's timestamp when add_transaction reads it
\* first and at `now` when _rebuild_summary reads it again.  On an edited
\* message the record is saved before the reply raises.
record_amount(u, tx_type, amount, edited) ==
    /\ fileOK
    /\ Len(tx) < MaxTx
    /\ \E now \in clock..MaxTime :
          /\ save_wb(add_transaction(tx, u, tx_type, amount, clock, now))
          /\ clock' = now
    /\ reply_text(edited,
                  Reply("added", <<tx_type, amount, get_user_stats(summary', u)[3]>>))

\* /start: the welcome text with the menu keyboard
start(u, edited) ==
    /\ reply_text(edited, Reply("welcome", <<>>))
    /\ UNCHANGED <<tx, summary, fileOK, clock, awaiting>>

\* a command with an amount argument: /add (deposit), /withdraw (withdraw)
amount_command(u, tx_type, args, edited) ==
    IF args = <<>>
    THEN /\ reply_text(edited, Reply("usage", <<>>))
         /\ UNCHANGED <<tx, summary, fileOK, clock, awaiting>>
    ELSE IF ~parse_amount(args[1]).ok
    THEN /\ reply_text(edited, Reply("invalid", <<>>))
         /\ UNCHANGED <<tx, summary, fileOK, clock, awaiting>>
    ELSE /\ record_amount(u, tx_type, IntOf(parse_amount(args[1]).amount), edited)
         /\ UNCHANGED awaiting

add_deposit(u, args, edited) == amount_command(u, "deposit", args, edited)

withdraw(u, args, edited) == amount_command(u, "withdraw", args, edited)

balance(u, edited) ==
    /\ fileOK
    /\ reply_text(edited, Reply("balance", <<get_user_stats(summary, u)[3],
                                             get_user_stats(summary, u)[4]>>))
    /\ UNCHANGED <<tx, summary, fileOK, clock, awaiting>>

stats(u, edited) ==
    /\ fileOK
    /\ reply_text(edited, Reply("stats", get_user_stats(summary, u)))
    /\ UNCHANGED <<tx, summary, fileOK, clock, awaiting>>

\* faulty variant of history: the handler recomputes and saves the Summary
history_recomputing(u, edited) ==
    /\ fileOK
    /\ save_wb(Workbook(tx, rebuild_summary(tx, clock)))
    /\ reply_text(edited, Reply("history", get_user_history(tx, u, DefaultLimit)))
    /\ UNCHANGED <<clock, awaiting>>

history(u, edited) ==
    /\ fileOK
    /\ reply_text(edited, Reply("history", get_user_history(tx, u, DefaultLimit)))
    /\ UNCHANGED <<tx, summary, fileOK, clock, awaiting>>

\* the file exists from construction on, so the document is always sent
export_file(u, edited) ==
    /\ reply_text(edited, Reply("export", <<>>))
    /\ UNCHANGED <<tx, summary, fileOK, clock, awaiting>>

\* faulty variant of reset: the command deletes at once, without asking
reset_unconfirmed(u, edited) ==
    /\ fileOK
    /\ save_wb(reset_user(tx, u, clock))
    /\ reply' = Reply("deleted", <<>>)
    /\ UNCHANGED <<clock, awaiting>>

\* /reset only asks for confirmation
reset(u, edited) ==
    /\ reply_text(edited, Reply("confirm", <<>>))
    /\ UNCHANGED <<tx, summary, fileOK, clock, awaiting>>

button_callback(u, data) ==
    IF data = "reset_confirm"
    THEN /\ fileOK
         /\ save_wb(reset_user(tx, u, clock))
         /\ reply' = Reply("deleted", <<>>)
         /\ UNCHANGED <<clock, awaiting>>
    ELSE /\ reply' = Reply("cancel", <<>>)
         /\ UNCHANGED <<tx, summary, fileOK, clock, awaiting>>

\* a keyboard button.  The handler reads update.message.text first (line
\* 314), which raises on an edited message.
menu_router(u, text, edited) ==
    IF edited
    THEN /\ reply' = AttributeError
         /\ UNCHANGED <<tx, summary, fileOK, clock, awaiting>>
    ELSE CASE text = "deposit" ->
                /\ awaiting' = [awaiting EXCEPT ![u] = "deposit"]
                /\ reply' = Reply("ask_amount", <<"deposit">>)
                /\ UNCHANGED <<tx, summary, fileOK, clock>>
          [] text = "withdraw" ->
                /\ awaiting' = [awaiting EXCEPT ![u] = "withdraw"]
                /\ reply' = Reply("ask_amount", <<"withdraw">>)
                /\ UNCHANGED <<tx, summary, fileOK, clock>>
          [] text = "balance" -> balance(u, FALSE)
          [] text = "stats" -> stats(u, FALSE)
          [] text = "history" -> history(u, FALSE)
          [] text = "export" -> export_file(u, FALSE)
          [] text = "reset" -> reset(u, FALSE)

\* The handlers are coroutines: an invocation runs until it reaches an
\* await, where the event loop may run something else, and goes on from
\* there when the awaited Telegram call returns; the call can also raise
\* (telegram.error.NetworkError, Forbidden, ...), which ends the invocation
\* there.  Most handlers run from their start to one last
\* `await ...reply_text(...)` (reply_document for the export,
\* edit_message_text for the callback) and have no statement left after it:
\* they are over, as far as the state goes, when they reach it.  Two awaits
\* have statements after them, and `inflight` holds the invocations
\* suspended in one of them:
\*   "answer"      button_callback in `await query.answer()` (line 305),
\*                 before reset_user;
\*   "reply_text"  amount_from_menu in the await that sends the rejection
\*                 (line 342), before the flag is popped (line 343).
\* the lowest idle task slot
FreeSlot == CHOOSE s \in Slots : inflight[s] = Idle /\ \A r \in 1..(s - 1) : inflight[r] # Idle

\* amount_from_menu on a rejected text, up to the await of line 342: the
\* rejection is on its way and the flag is still set
amount_rejected(u, text) ==
    /\ awaiting[u] # ""
    /\ ~parse_amount(text).ok
    /\ \E s \in Slots : inflight[s] = Idle
    /\ reply' = Reply("invalid", <<>>)
    /\ inflight' = [inflight EXCEPT ![FreeSlot] = Suspended("reply_text", u, "")]
    /\ UNCHANGED <<tx, summary, fileOK, clock, awaiting>>

\* the await of line 342 returns: context.user_data.pop("awaiting_amount",
\* None) (line 343) drops whatever flag the user has by now
rejection_sent(s) ==
    /\ inflight[s].pc = "reply_text"
    /\ awaiting' = [awaiting EXCEPT ![inflight[s].u] = ""]
    /\ inflight' = [inflight EXCEPT ![s] = Idle]
    /\ UNCHANGED <<tx, summary, fileOK, clock, reply>>

\* the await an invocation is suspended in raises: the exception leaves the
\* handler and the statements after the await do not run
await_raises(s) ==
    /\ inflight[s] # Idle
    /\ reply' = Reply("send_error", <<>>)
    /\ inflight' = [inflight EXCEPT ![s] = Idle]
    /\ UNCHANGED <<tx, summary, fileOK, clock, awaiting>>

\* any other text message that is not a command, up to the end of the
\* handler or to the await of line 342.  With the flag unset the handler
\* returns at once.  On an edited message `update.message.text` (line 340)
\* raises with the flag still set.  A rejected text is answered first and
\* the handler is suspended in that await, the flag still set
\* (rejection_sent and await_raises are the two ways it goes on).  An
\* accepted text pops the flag (line 346) before add_transaction and the
\* reply.
amount_from_menu(u, text, edited) ==
    IF awaiting[u] = ""
    THEN UNCHANGED <<tx, summary, fileOK, clock, awaiting, reply, inflight>>
    ELSE IF edited
    THEN /\ reply' = AttributeError
         /\ UNCHANGED <<tx, summary, fileOK, clock, awaiting, inflight>>
    ELSE IF ~parse_amount(text).ok
    THEN amount_rejected(u, text)
    ELSE /\ awaiting' = [awaiting EXCEPT ![u] = ""]
         /\ record_amount(u, awaiting[u], IntOf(parse_amount(text).amount), FALSE)
         /\ UNCHANGED inflight

\* Application.builder().token(BOT_TOKEN).build() keeps the default
\* concurrent_updates = False: an update's handler runs to its end before the
\* next update is taken, so no invocation is left suspended between steps.
\* Here every await returns.
Next ==
    \/ Tick /\ UNCHANGED inflight
    \/ \E u \in Users, edited \in BOOLEAN :
          start(u, edited) /\ UNCHANGED inflight
    \/ \E u \in Users, args \in CmdArgs, edited \in BOOLEAN :
          add_deposit(u, args, edited) /\ UNCHANGED inflight
    \/ \E u \in Users, args \in CmdArgs, edited \in BOOLEAN :
          withdraw(u, args, edited) /\ UNCHANGED inflight
    \/ \E u \in Users, edited \in BOOLEAN :
          balance(u, edited) /\ UNCHANGED inflight
    \/ \E u \in Users, edited \in BOOLEAN :
          stats(u, edited) /\ UNCHANGED inflight
    \/ \E u \in Users, edited \in BOOLEAN :
          history(u, edited) /\ UNCHANGED inflight
    \/ \E u \in Users, edited \in BOOLEAN :
          export_file(u, edited) /\ UNCHANGED inflight
    \/ \E u \in Users, edited \in BOOLEAN :
          reset(u, edited) /\ UNCHANGED inflight
    \/ \E u \in Users, data \in CallbackData :
          button_callback(u, data) /\ UNCHANGED inflight

Spec == Init /\ [][Next]_vars

\* ---- the keyboard menu as well: every handler main() registers ----------
\* (the /balance, /stats, /history, /export and /reset commands run the
\* handlers the menu buttons run).  The pending flags multiply the states,
\* so the log is kept shorter here and the handlers all run within one
\* second.  Updates are taken one after the other: the next handler starts
\* when the one before is over (no invocation is suspended).
MaxTxMenu == 2

\* no handler invocation is under way
idle == \A s \in Slots : inflight[s] = Idle

NextMenu ==
    \/ \E u \in Users, edited \in BOOLEAN :
          idle /\ start(u, edited) /\ UNCHANGED inflight
    \/ \E u \in Users, args \in CmdArgs, edited \in BOOLEAN :
          /\ idle /\ add_deposit(u, args, edited)
          /\ Len(tx') <= MaxTxMenu /\ clock' = clock /\ UNCHANGED inflight
    \/ \E u \in Users, args \in CmdArgs, edited \in BOOLEAN :
          /\ idle /\ withdraw(u, args, edited)
          /\ Len(tx') <= MaxTxMenu /\ clock' = clock /\ UNCHANGED inflight
    \/ \E u \in Users, data \in CallbackData :
          idle /\ button_callback(u, data) /\ UNCHANGED inflight
    \/ \E u \in Users, text \in MenuButtons, edited \in BOOLEAN :
          idle /\ menu_router(u, text, edited) /\ UNCHANGED inflight
    \/ \E u \in Users, text \in RawTexts, edited \in BOOLEAN :
          /\ idle /\ amount_from_menu(u, text, edited)
          /\ Len(tx') <= MaxTxMenu /\ clock' = clock
    \/ \E s \in Slots : rejection_sent(s)
    \/ \E s \in Slots : await_raises(s)

SpecMenu == Init /\ [][NextMenu]_vars

\* ---- handlers in flight and restarts -------------------------------------
\* Several updates dispatched at once: while an invocation is suspended in
\* an await, the event loop runs the handlers of other updates.
MaxTxAsync == 2

\* the users whose updates are dispatched here: 0..MaxUserAsync
MaxUserAsync == 1

AsyncUsers == {u \in Users : u <= MaxUserAsync}

\* button_callback up to `await query.answer()`
callback_query(u, data) ==
    /\ \E s \in Slots : inflight[s] = Idle
    /\ inflight' = [inflight EXCEPT ![FreeSlot] = Suspended("answer", u, data)]
    /\ UNCHANGED <<tx, summary, fileOK, clock, awaiting, reply>>

\* button_callback from `await query.answer()` on: the rest of the handler
callback_answered(s) ==
    /\ inflight[s].pc = "answer"
    /\ button_callback(inflight[s].u, inflight[s].data)
    /\ inflight' = [inflight EXCEPT ![s] = Idle]

\* faulty variant of _init_workbook: the workbook is created anew whether or
\* not the file exists
init_workbook_overwrites(exists, wb) == new_workbook

\* _init_workbook(): nothing is done when the file exists; otherwise the new
\* workbook is saved.  The workbook at EXCEL_PATH afterwards.
init_workbook(exists, wb) == IF exists THEN wb ELSE new_workbook

\* the process is started again (the file exists from the first start on):
\* ledger = LedgerStorage(EXCEL_PATH) runs _init_workbook(), and user_data
\* (no persistence is configured) and the suspended invocations of the old
\* process are gone
restart ==
    /\ tx' = init_workbook(TRUE, Workbook(tx, summary)).tx
    /\ summary' = init_workbook(TRUE, Workbook(tx, summary)).summary
    /\ awaiting' = [u \in Users |-> ""]
    /\ reply' = NoReply
    /\ inflight' = [s \in Slots |-> Idle]
    /\ UNCHANGED <<fileOK, clock>>

\* every handler main() registers, as in NextMenu, with button_callback
\* taken one await at a time as well
NextAsync ==
    \/ \E u \in AsyncUsers, edited \in BOOLEAN :
          start(u, edited) /\ UNCHANGED inflight
    \/ \E u \in AsyncUsers, args \in CmdArgs, edited \in BOOLEAN :
          /\ add_deposit(u, args, edited)
          /\ Len(tx') <= MaxTxAsync /\ clock' = clock /\ UNCHANGED inflight
    \/ \E u \in AsyncUsers, args \in CmdArgs, edited \in BOOLEAN :
          /\ withdraw(u, args, edited)
          /\ Len(tx') <= MaxTxAsync /\ clock' = clock /\ UNCHANGED inflight
    \/ \E u \in AsyncUsers, text \in MenuButtons, edited \in BOOLEAN :
          menu_router(u, text, edited) /\ UNCHANGED inflight
    \/ \E u \in AsyncUsers, text \in RawTexts, edited \in BOOLEAN :
          /\ amount_from_menu(u, text, edited)
          /\ Len(tx') <= MaxTxAsync /\ clock' = clock
    \/ \E s \in Slots : rejection_sent(s)
    \/ \E u \in AsyncUsers, data \in CallbackData : callback_query(u, data)
    \/ \E s \in Slots : callback_answered(s)
    \/ \E s \in Slots : await_raises(s)
    \/ restart

SpecAsync == Init /\ [][NextAsync]_vars

\* ---- storage faults ------------------------------------------------------
\* wb.save(self.file_path) writes the workbook straight into the one file at
\* EXCEL_PATH (no temporary file, no rename).  When the write raises, the
\* exception leaves add_transaction / reset_user and the handler, and the
\* file is what the failed write left: untouched if it failed before
\* writing, otherwise a partial file that is no workbook.
save_wb_fails ==
    /\ reply' = Reply("io_error", <<>>)
    /\ \/ UNCHANGED <<tx, summary, fileOK>>
       \/ /\ tx' = <<>>
          /\ summary' = <<>>
          /\ fileOK' = FALSE

\* /add or /withdraw with a valid amount whose save fails
add_transaction_save_fails ==
    /\ fileOK
    /\ \E args \in CmdArgs : args # <<>> /\ parse_amount(args[1]).ok
    /\ save_wb_fails
    /\ UNCHANGED <<clock, awaiting>>

\* a confirmed reset whose save fails
reset_user_save_fails ==
    /\ fileOK
    /\ save_wb_fails
    /\ UNCHANGED <<clock, awaiting>>

\* _load_wb() on a file that is no workbook raises in every ledger call
load_wb_fails ==
    /\ ~fileOK
    /\ reply' = Reply("io_error", <<>>)
    /\ UNCHANGED <<tx, summary, fileOK, clock, awaiting>>

NextFault ==
    \/ Next
    \/ add_transaction_save_fails /\ UNCHANGED inflight
    \/ reset_user_save_fails /\ UNCHANGED inflight
    \/ load_wb_fails /\ UNCHANGED inflight

SpecFault == Init /\ [][NextFault]_vars


\* ======================================================================
\* Properties.  The helpers below restate what the specification expects,
\* independently of the operators that model the code.
\* ======================================================================
\* distinct user_id values with a row in Transactions / in Summary
LogUsers == {tx[i].user_id : i \in DOMAIN tx}

SummaryUsers == {summary[k].user_id : k \in DOMAIN summary}

\* positions of u's records in the log
RowsOf(txs, u) == {i \in DOMAIN txs : txs[i].user_id = u}

\* the j-th smallest element of a set of positions
Nth(S, j) == CHOOSE i \in S : Cardinality({m \in S : m <= i}) = j

\* the rows of txs at the positions S, in log order
Pick(txs, S) == [j \in 1..Cardinality(S) |-> txs[Nth(S, j)]]

\* the log without the records of u
Without(txs, u) == Pick(txs, DOMAIN txs \ RowsOf(txs, u))

\* sum of the amounts of the rows at the positions S
RECURSIVE SumAt(_, _)
SumAt(txs, S) ==
    IF S = {} THEN 0
    ELSE LET i == CHOOSE x \in S : TRUE
         IN  txs[i].amount + SumAt(txs, S \ {i})

TotalOf(txs, u, tx_type) ==
    SumAt(txs, {i \in RowsOf(txs, u) : txs[i].type = tx_type})

Min(a, b) == IF a < b THEN a ELSE b

\* C1: the users with a Summary row are exactly the users with a
\* Transactions row (user id 0 included).
C1_SummaryUsersAreLogUsers == SummaryUsers = LogUsers

\* C2: for every user (0 included) get_user_stats returns the sum of the
\* user's deposit amounts, the sum of the withdraw amounts, and their
\* difference as the balance.
C2_SumConsistency ==
    \A u \in Users :
        LET st == get_user_stats(summary, u)
        IN  /\ st[1] = TotalOf(tx, u, "deposit")
            /\ st[2] = TotalOf(tx, u, "withdraw")
            /\ st[3] = st[1] - st[2]

\* C3: every stored amount is strictly positive.
C3_AmountsPositive == \A i \in DOMAIN tx : tx[i].amount > 0

\* C4: get_user_history(u, N), N >= 0, has at most N entries and is the
\* reversal of the last min(N, k) of u's k records in log order.
C4_HistoryBound ==
    \A u \in Users, N \in 0..MaxLimit :
        LET h == get_user_history(tx, u, N)
            own == Pick(tx, RowsOf(tx, u))
            k == Len(own)
            m == Min(N, k)
        IN  /\ Len(h) <= N
            /\ Len(h) = m
            /\ \A j \in 1..m :
                  h[j] = <<own[k + 1 - j].type, own[k + 1 - j].amount,
                           own[k + 1 - j].timestamp>>

\* C5 (as claimed): a second reset_user(u) right after the first leaves the
\* saved workbook identical, every Summary column included, and after the
\* first reset u's stats are four zeros and u's history is empty.  The two
\* calls run at times t1 <= t2 not before the current second.
C5_ResetTwiceIdentical ==
    \A u \in Users, t1 \in clock..MaxTime :
        \A t2 \in t1..MaxTime :
            LET wb1 == reset_user(tx, u, t1)
                wb2 == reset_user(wb1.tx, u, t2)
            IN  /\ wb2 = wb1
                /\ get_user_stats(wb1.summary, u) = <<0, 0, 0, 0>>
                /\ get_user_history(wb1.tx, u, DefaultLimit) = <<>>

\* a Summary sheet with every row's updated_at set to t
Restamped(sm, t) == [k \in DOMAIN sm |-> [sm[k] EXCEPT !.updated_at = t]]

\* C5 (amended): a second reset_user(u) right after the first leaves all
\* Transactions rows and all Summary rows identical except for updated_at,
\* which every Summary row takes from the second call; u's stats are four
\* zeros and u's history is empty after the first call.
C5_ResetTwiceSameButStamp ==
    \A u \in Users, t1 \in clock..MaxTime :
        \A t2 \in t1..MaxTime :
            LET wb1 == reset_user(tx, u, t1)
                wb2 == reset_user(wb1.tx, u, t2)
            IN  /\ wb2.tx = wb1.tx
                /\ wb2.summary = Restamped(wb1.summary, t2)
                /\ get_user_stats(wb1.summary, u) = <<0, 0, 0, 0>>
                /\ get_user_history(wb1.tx, u, DefaultLimit) = <<>>

\* a reset has just run for a user with records, while other users keep
\* Summary rows and the clock can still move before the second call
C5_Witness ==
    /\ reply.kind = "deleted"
    /\ summary # <<>>
    /\ Len(tx) >= 2
    /\ clock < MaxTime

\* C6: a confirmed reset by u removes from the log exactly u's records; the
\* records of the other users stay, unchanged and in the same order; with
\* no record of u the log is unchanged.  (A confirmed reset always answers
\* "deleted", so only the steps ending in that reply need a look.)
C6_ResetRemovesOnlyOwn ==
    [][reply'.kind = "deleted" =>
          \A u \in Users :
              button_callback(u, "reset_confirm") =>
                  /\ tx' = Without(tx, u)
                  /\ (RowsOf(tx, u) = {} => tx' = tx)]_vars

\* a reset has just run and left two records of other users in the log
C6_Witness ==
    /\ reply.kind = "deleted"
    /\ Len(tx) = 2
    /\ tx[1] # tx[2]

\* the log before a step is a prefix of the log after it
IsPrefix(s, t) == Len(s) <= Len(t) /\ SubSeq(t, 1, Len(s)) = s

\* the argument lists of /add and /withdraw whose first argument is accepted
AcceptedArgs == {args \in CmdArgs \ {<<>>} : parse_amount(args[1]).ok}

\* C7: an accepted /add or /withdraw by u appends exactly one record
\* (u, kind, amount, current timestamp) after the records already there,
\* which stay unchanged and in order; no step changes or reorders a record,
\* and records leave the log only by a confirmed reset of their own user.
\* (An accepted add of a new message ends in the answer "added", one of an
\* edited message in the AttributeError of that answer.)
C7_AppendOnly ==
    [][/\ reply'.kind \in {"added", "attribute_error"} =>
              \A u \in Users, args \in AcceptedArgs :
                  LET amount == IntOf(parse_amount(args[1]).amount)
                      edited == reply'.kind = "attribute_error"
                  IN  /\ add_deposit(u, args, edited) =>
                             tx' = tx \o <<[user_id |-> u, type |-> "deposit",
                                            amount |-> amount,
                                            timestamp |-> clock]>>
                      /\ withdraw(u, args, edited) =>
                             tx' = tx \o <<[user_id |-> u, type |-> "withdraw",
                                            amount |-> amount,
                                            timestamp |-> clock]>>
       /\ \/ IsPrefix(tx, tx') /\ Len(tx') <= Len(tx) + 1
          \/ \E u \in Users :
                /\ button_callback(u, "reset_confirm")
                /\ tx' = Without(tx, u)]_vars

\* an add has just appended a record after two earlier ones
C7_Witness ==
    /\ reply.kind = "added"
    /\ Len(tx) = 3
    /\ tx[3].timestamp = clock

\* C10: a user without records in the log has stats (0, 0, 0, 0) and an
\* empty history, for every limit.
C10_NotFoundIsZero ==
    \A u \in Users :
        RowsOf(tx, u) = {} =>
            /\ get_user_stats(summary, u) = <<0, 0, 0, 0>>
            /\ \A N \in (0..MaxLimit) \cup {DefaultLimit} :
                  get_user_history(tx, u, N) = <<>>

\* user 1 has just been reset while user 2 still has records
C10_Witness ==
    /\ reply.kind = "deleted"
    /\ RowsOf(tx, 1) = {}
    /\ RowsOf(tx, 2) # {}
    /\ summary # <<>>

\* C8: when the save of a mutating operation fails, the file afterwards is
\* a readable workbook holding either the state before the operation or the
\* state the operation was writing, never anything else.
C8_AllOrNothingSave ==
    [][reply'.kind = "io_error" =>
          /\ fileOK'
          /\ \/ <<tx', summary'>> = <<tx, summary>>
             \/ \E u \in Users, t \in TxTypes, raw \in RawTexts :
                   /\ parse_amount(raw).ok
                   /\ \E now \in clock..MaxTime :
                          Workbook(tx', summary') =
                              add_transaction(tx, u, t, IntOf(parse_amount(raw).amount),
                                              clock, now)
             \/ \E u \in Users :
                   Workbook(tx', summary') = reset_user(tx, u, clock)]_vars

\* the texts of RawTexts that are no positive decimal numeral
InvalidTexts == {<<"-", "5">>, <<"0">>, <<"a", "b", "c">>}

\* C9: on /add, /withdraw and the menu's amount message, a text that is not
\* a decimal numeral or whose value is <= 0 is answered with a rejection
\* (no exception leaves the handler) and Transactions and Summary stay as
\* they were.  (Called with a text these handlers end in "invalid", in
\* "added" or in an AttributeError, so only such steps need a look.)
C9_InvalidAmountRejected ==
    [][reply'.kind \in {"invalid", "added", "attribute_error"} =>
          \A u \in Users, raw \in InvalidTexts, edited \in BOOLEAN :
              /\ (add_deposit(u, <<raw>>, edited) \/ withdraw(u, <<raw>>, edited)) =>
                     /\ reply'.kind = "invalid"
                     /\ UNCHANGED <<tx, summary>>
              /\ (awaiting[u] # "" /\ amount_from_menu(u, raw, edited)) =>
                     /\ reply'.kind = "invalid"
                     /\ UNCHANGED <<tx, summary>>]_vars


Abs(n) == IF n < 0 THEN -n ELSE n

\* r (hundredths of a percent) is (w - d) / d * 100 rounded to two decimal
\* places: no further from the exact quotient than half a hundredth; d > 0.
IsRoundedRoi(r, d, w) == 2 * Abs(r * d - (w - d) * 10000) <= d

\* C11: for every user (0 included) whose deposits in the log sum to d > 0
\* and whose withdrawals sum to w, the Summary sheet stores a row for the
\* user whose roi_percent is (w - d) / d * 100 rounded to two places.
C11_RoiFormula ==
    \A u \in Users :
        LET d == TotalOf(tx, u, "deposit")
            w == TotalOf(tx, u, "withdraw")
        IN  d > 0 =>
                \E k \in DOMAIN summary :
                    /\ summary[k].user_id = u
                    /\ IsRoundedRoi(summary[k].roi_percent, d, w)

\* C12: a user whose deposits in the log sum to 0 (only withdrawals, only
\* zero-valued deposits, or no records) has roi 0 whatever the withdrawals:
\* in the Summary row if there is one, and in what get_user_stats returns.
C12_RoiZeroGuard ==
    \A u \in Users :
        TotalOf(tx, u, "deposit") = 0 =>
            /\ get_user_stats(summary, u)[4] = 0
            /\ \A k \in DOMAIN summary :
                  summary[k].user_id = u => summary[k].roi_percent = 0

\* one user has a Summary row with withdrawals and no deposits, another has
\* a row made of a zero-valued deposit alone
C12_Witness ==
    \E u, v \in Users, j, k \in DOMAIN summary :
        /\ summary[j].user_id = u
        /\ summary[j].deposits = 0 /\ summary[j].withdrawals > 0
        /\ summary[k].user_id = v
        /\ summary[k].deposits = 0 /\ summary[k].withdrawals = 0
        /\ \E i \in RowsOf(tx, v) : tx[i].type = "deposit"

\* C13: the query handlers (balance and stats, which call get_user_stats;
\* history, which calls get_user_history; export) leave every row and
\* column of Transactions and Summary as they were, updated_at included,
\* and save nothing.  (Each answers with a reply of its own kind, or ends
\* in an AttributeError on an edited message.)
C13_QueriesReadOnly ==
    [][\A u \in Users :
          (\/ reply'.kind = "balance" /\ balance(u, FALSE)
           \/ reply'.kind = "stats" /\ stats(u, FALSE)
           \/ reply'.kind = "history" /\ history(u, FALSE)
           \/ reply'.kind = "export" /\ export_file(u, FALSE)
           \/ /\ reply'.kind = "attribute_error"
              /\ \/ balance(u, TRUE) \/ stats(u, TRUE)
                 \/ history(u, TRUE) \/ export_file(u, TRUE)) =>
              UNCHANGED <<tx, summary, fileOK>>]_vars

\* a history query has just been answered in a later second than the one
\* the Summary rows were stamped in
C13_Witness ==
    /\ reply.kind = "history"
    /\ reply.body # <<>>
    /\ summary # <<>>
    /\ summary[1].updated_at < clock

\* C15: the Summary sheet holds exactly one row for each user id that has
\* records in Transactions (user id 0 as any other), the rows are in
\* strictly ascending user_id order, and no row is left over for a user
\* without records in Transactions.
C15_SummaryRowsUniqueSorted ==
    /\ \A u \in LogUsers :
          Cardinality({k \in DOMAIN summary : summary[k].user_id = u}) = 1
    /\ \A j, k \in DOMAIN summary :
          j < k => summary[j].user_id < summary[k].user_id
    /\ \A k \in DOMAIN summary : RowsOf(tx, summary[k].user_id) # {}

\* a step in which a handler of user u changes the ledger: an accepted /add
\* or /withdraw (of a new message, answered "added", or of an edited one,
\* ending in an AttributeError), or a confirmed reset
Mutation(u) ==
    \/ /\ reply'.kind \in {"added", "attribute_error"}
       /\ \E args \in AcceptedArgs :
              LET edited == reply'.kind = "attribute_error"
              IN  add_deposit(u, args, edited) \/ withdraw(u, args, edited)
    \/ /\ reply'.kind = "deleted"
       /\ button_callback(u, "reset_confirm")

\* C16: all Summary rows carry one and the same updated_at: a mutation by
\* any user stamps every row, other users' rows included, with the time at
\* which that mutation recomputes the Summary (the time the clock shows
\* when the mutation is over, never before the time it began), and no other
\* step touches the Summary, so the shared stamp is always the time of the
\* most recent mutation.
C16_SharedStamp ==
    [][/\ \A j, k \in DOMAIN summary' :
             summary'[j].updated_at = summary'[k].updated_at
       /\ IF \E u \in Users : Mutation(u)
          THEN /\ clock <= clock'
               /\ \A k \in DOMAIN summary' : summary'[k].updated_at = clock'
          ELSE summary' = summary]_vars

\* an add that began in second 0 and recomputed the Summary in second 1 has
\* just re-stamped the row of another user, whose own records all date from
\* second 0
C16_Witness ==
    /\ reply.kind = "added"
    /\ clock = 1
    /\ tx[Len(tx)].timestamp = 0
    /\ Len(summary) = 2
    /\ \E k \in DOMAIN summary :
          /\ summary[k].updated_at = 1
          /\ \A i \in RowsOf(tx, summary[k].user_id) : tx[i].timestamp = 0

\* position of a kind's total in the tuple get_user_stats returns
StatIndex(tx_type) == IF tx_type = "deposit" THEN 1 ELSE 2

\* C17: an accepted add of `amount` of kind t by user u (0 included) leaves
\* the stats of every other user and every other user's history (for every
\* limit) as they were, raises u's total of kind t by exactly `amount`, and
\* leaves u's total of the other kind as it was.
C17_AddIsolation ==
    [][reply'.kind = "added" =>
          \A u \in Users, t \in TxTypes, args \in CmdArgs \ {<<>>} :
              (parse_amount(args[1]).ok /\ amount_command(u, t, args, FALSE)) =>
                  LET before == get_user_stats(summary, u)
                      after == get_user_stats(summary', u)
                  IN  /\ \A v \in Users \ {u} :
                            /\ get_user_stats(summary', v) = get_user_stats(summary, v)
                            /\ \A N \in (0..MaxLimit) \cup {DefaultLimit} :
                                  get_user_history(tx', v, N) = get_user_history(tx, v, N)
                      /\ after[StatIndex(t)] =
                             before[StatIndex(t)] + IntOf(parse_amount(args[1]).amount)
                      /\ after[3 - StatIndex(t)] = before[3 - StatIndex(t)]]_vars

\* C18: /reset and the reset menu button leave the ledger as it is; a
\* callback whose data is not "reset_confirm" leaves it as it is; reset_user
\* runs (the answer "deleted") only in the handler of a "reset_confirm"
\* callback; and whenever records leave the log they are exactly the
\* records of the user who pressed that button.
C18_ResetNeedsConfirm ==
    [][/\ \A u \in Users, edited \in BOOLEAN :
              (reset(u, edited) \/ menu_router(u, "reset", edited)) =>
                  UNCHANGED <<tx, summary, fileOK>>
       /\ \A u \in Users, data \in (CallbackData \cup {"", "reset"}) \ {"reset_confirm"} :
              button_callback(u, data) => UNCHANGED <<tx, summary, fileOK>>
       /\ (reply'.kind = "deleted" \/ ~IsPrefix(tx, tx')) =>
              \E u \in Users :
                  /\ button_callback(u, "reset_confirm")
                  /\ tx' = Without(tx, u)]_vars

\* the reset button has just been answered with the confirmation question
\* while the log is full, one of its records belonging to user 0
C18_Witness ==
    /\ reply.kind = "confirm"
    /\ Len(tx) = MaxTxMenu
    /\ RowsOf(tx, 0) # {}

\* C19: a free-text message of user u changes nothing while u's flag is
\* unset; handled with the flag set it records at most one transaction, of
\* the kind the flag named, and the flag is unset when that handling is
\* over, whether the text was accepted or rejected (a rejection is over
\* when its invocation leaves the await it was suspended in); and u's flag
\* changes only when u presses the deposit or the withdraw button (to that
\* button's kind) or when a free text of u is handled (to unset), so the
\* flag names the button u pressed last and no other command, button or
\* user touches it.  (A restart of the process drops all flags.)
C19_PendingAmountProtocol ==
    [][/\ reply'.kind \in {"invalid", "added", "attribute_error"} =>
              \A u \in Users, text \in RawTexts, edited \in BOOLEAN :
                  (awaiting[u] # "" /\ amount_from_menu(u, text, edited)) =>
                      /\ awaiting'[u] = "" \/ \E s \in Slots : inflight'[s] # inflight[s]
                      /\ \/ UNCHANGED <<tx, summary>>
                         \/ /\ parse_amount(text).ok
                            /\ tx' = Append(tx, [user_id |-> u,
                                                 type |-> awaiting[u],
                                                 amount |-> IntOf(parse_amount(text).amount),
                                                 timestamp |-> clock])
       /\ \A s \in Slots :
              (inflight[s].pc = "reply_text" /\ inflight'[s] = Idle) =>
                  awaiting'[inflight[s].u] = ""
       /\ reply'.kind = reply.kind =>
              \A u \in Users, text \in RawTexts, edited \in BOOLEAN :
                  (awaiting[u] = "" /\ amount_from_menu(u, text, edited)) =>
                      UNCHANGED <<tx, summary, fileOK, awaiting>>
       /\ reply'.kind = "ask_amount" =>
              \A u \in Users, button \in TxTypes :
                  menu_router(u, button, FALSE) => awaiting'[u] = button
       /\ \A u \in Users :
              awaiting'[u] # awaiting[u] =>
                  \/ awaiting'[u] \in TxTypes /\ menu_router(u, awaiting'[u], FALSE)
                  \/ /\ awaiting'[u] = ""
                     /\ \/ \E text \in RawTexts : amount_from_menu(u, text, FALSE)
                        \/ \E s \in Slots : inflight[s].u = u /\ rejection_sent(s)
                        \/ restart]_vars

\* the Summary sheet sm is the one recomputed from the log txs
Matching(txs, sm) == \E t \in 0..MaxTime : sm = rebuild_summary(txs, t)

\* C14: with handler invocations suspended at their awaits while others
\* run, every state in which the event loop can switch holds a log together
\* with the Summary recomputed from it; every accepted add appends exactly
\* its one record to the log as it stands (so n accepted adds without a
\* reset leave n records: none is lost), and the balance it reports (if the
\* message is not an edited one, which gets no report) is the
\* one in the Summary recomputed from the log with that record in it (for a
\* non-zero user id: the user's deposits minus withdrawals, the new record
\* counted); a confirmed reset takes out exactly its user's records; and no
\* other step touches log or Summary.
C14_MutationsAreUnits ==
    [][/\ Matching(tx', summary')
       /\ IF Len(tx') > Len(tx)
          THEN \E u \in Users, t \in TxTypes, args \in CmdArgs \cup {<<raw>> : raw \in RawTexts} :
                  /\ args # <<>> /\ parse_amount(args[1]).ok
                  /\ \/ reply'.kind = "added" /\ amount_command(u, t, args, FALSE)
                     \/ reply'.kind = "attribute_error" /\ amount_command(u, t, args, TRUE)
                     \/ /\ reply'.kind = "added" /\ awaiting[u] = t
                        /\ amount_from_menu(u, args[1], FALSE)
                  /\ tx' = Append(tx, [user_id |-> u, type |-> t,
                                       amount |-> IntOf(parse_amount(args[1]).amount),
                                       timestamp |-> clock])
                  /\ reply'.kind = "added" =>
                         /\ reply'.body[3] =
                                get_user_stats(rebuild_summary(tx', clock'), u)[3]
                         /\ u # 0 =>
                                reply'.body[3] = TotalOf(tx', u, "deposit")
                                                     - TotalOf(tx', u, "withdraw")
          ELSE IF reply'.kind = "deleted" /\ <<tx', reply'>> # <<tx, reply>>
          THEN \E s \in Slots :
                  /\ callback_answered(s)
                  /\ tx' = Without(tx, inflight[s].u)
          ELSE UNCHANGED <<tx, summary>>]_vars

\* an add has just been recorded while a reset the same user confirmed
\* earlier is still suspended in query.answer()
C14_Witness ==
    /\ reply.kind = "added"
    /\ Len(tx) = MaxTxAsync
    /\ \E r \in Slots :
          /\ inflight[r].pc = "answer"
          /\ inflight[r].data = "reset_confirm"
          /\ tx[Len(tx)].user_id = inflight[r].u

\* C20: the first construction (no file) leaves an empty log and an empty
\* Summary, which agree with each other, and every user then has stats
\* (0, 0, 0, 0) and an empty history; a later construction, with the file
\* in place, leaves Transactions and Summary as they are.
C20_RestartPreservesLedger ==
    /\ tx = <<>> /\ summary = <<>>
    /\ SummaryUsers = LogUsers
    /\ \A u \in Users :
          /\ get_user_stats(summary, u) = <<0, 0, 0, 0>>
          /\ get_user_history(tx, u, DefaultLimit) = <<>>
    /\ [][restart => UNCHANGED <<tx, summary, fileOK>>]_vars

\* the process has been started again over a ledger that holds records
C20_Witness ==
    /\ reply = NoReply
    /\ inflight = [s \in Slots |-> Idle]
    /\ Len(tx) = MaxTxAsync
    /\ summary # <<>>

=============================================================================
